---- MODULE Spec2Model ----
(***************************************************************************)
(* A model of brainfart: the lexer (src/src/lexer.rs), the token-level     *)
(* interpreter ProgState (src/src/progstate.rs) driven by main             *)
(* (src/src/main.rs), and the optimizing parser (src/src/parser.rs).       *)
(***************************************************************************)
EXTENDS Integers, Sequences, FiniteSets, TLC

(***************************************************************************)
(* Bounds of the model.                                                    *)
(***************************************************************************)
\* longest source string handed to the step-wise lexer
MaxLexLen == 3

(***************************************************************************)
(* Characters, tokens, errors (token.rs, error.rs).                        *)
(***************************************************************************)
\* the characters a source is drawn from: the 8 commands, both line breaks
\* and one character that is no command
CommandChars == {">", "<", "+", "-", ".", ",", "[", "]"}

SourceChars == CommandChars \cup {"\n", "\r", "x"}

RECURSIVE StringsUpTo(_, _)
\* all sequences over alphabet of length 0..n
StringsUpTo(alphabet, n) ==
    IF n = 0 THEN {<< >>}
    ELSE LET shorter == StringsUpTo(alphabet, n - 1)
         IN shorter \cup {Append(s, c) : s \in {t \in shorter : Len(t) = n - 1}, c \in alphabet}

\* Token::from
Token(ty, l, c) == [ty |-> ty, line |-> l, col |-> c]

\* stands for "no token" in an error that carries none
NoToken == [ty |-> "None", line |-> 0, col |-> 0]

\* BrainfartError: a kind and the token it carries (NoToken for UnmatchedOpenBracket)
Error(kind, token) == [kind |-> kind, token |-> token]

NoError == Error("None", NoToken)

UnmatchedOpenBracket == Error("UnmatchedOpenBracket", NoToken)

(***************************************************************************)
(* Lexer (lexer.rs).                                                       *)
(***************************************************************************)
\* lex_char taking `,` for `.`
lex_char_comma_as_output(c) ==
    CASE c = ">" -> "PointInc"
      [] c = "<" -> "PointDec"
      [] c = "+" -> "ValInc"
      [] c = "-" -> "ValDec"
      [] c = "." -> "Output"
      [] c = "," -> "Output"
      [] c = "[" -> "IfZero"
      [] c = "]" -> "IfNonZero"
      [] OTHER -> "None"

\* lex_char: Some(TokenType) as the type's name, None as "None"
lex_char(c) ==
    CASE c = ">" -> "PointInc"
      [] c = "<" -> "PointDec"
      [] c = "+" -> "ValInc"
      [] c = "-" -> "ValDec"
      [] c = "." -> "Output"
      [] c = "," -> "Input"
      [] c = "[" -> "IfZero"
      [] c = "]" -> "IfNonZero"
      [] OTHER -> "None"

\* add_token without the test
CloseUnmatched_never(balance) == FALSE

\* the test `*brace_balance == 0` that guards the decrement in add_token
CloseUnmatched(balance) == balance = 0

\* add_token leaving brace_balance as it is at a matched `]`
add_token_close_not_counted(toks, token_type, balance, l, c) ==
    IF token_type = "IfNonZero" /\ CloseUnmatched(balance)
    THEN [err |-> Error("UnmatchedCloseBracket", Token(token_type, l, c)),
          tokens |-> toks, brace_balance |-> balance]
    ELSE [err |-> NoError,
          tokens |-> Append(toks, Token(token_type, l, c)),
          brace_balance |-> CASE token_type = "IfZero" -> balance + 1
                              [] OTHER -> balance]

\* add_token: the new tokens and brace_balance, or the error returned
add_token(toks, token_type, balance, l, c) ==
    IF token_type = "IfNonZero" /\ CloseUnmatched(balance)
    THEN [err |-> Error("UnmatchedCloseBracket", Token(token_type, l, c)),
          tokens |-> toks, brace_balance |-> balance]
    ELSE [err |-> NoError,
          tokens |-> Append(toks, Token(token_type, l, c)),
          brace_balance |-> CASE token_type = "IfZero" -> balance + 1
                              [] token_type = "IfNonZero" -> balance - 1
                              [] OTHER -> balance]

\* the iteration with a line break that leaves col as it is
LexIter_col_not_reset(st, ch) ==
    LET ty == lex_char(ch) IN
    IF ty # "None"
    THEN LET r == add_token(st.tokens, ty, st.brace_balance, st.line, st.col) IN
         IF r.err # NoError
         THEN [st EXCEPT !.err = r.err]
         ELSE [st EXCEPT !.tokens = r.tokens, !.brace_balance = r.brace_balance,
                         !.col = st.col + 1]
    ELSE IF ch = "\n" \/ ch = "\r"
    THEN [st EXCEPT !.line = st.line + 1]
    ELSE [st EXCEPT !.col = st.col + 1]

\* one iteration of the for loop of lex_string over the locals st, on character ch
LexIter(st, ch) ==
    LET ty == lex_char(ch) IN
    IF ty # "None"
    THEN LET r == add_token(st.tokens, ty, st.brace_balance, st.line, st.col) IN
         IF r.err # NoError
         THEN [st EXCEPT !.err = r.err]
         ELSE [st EXCEPT !.tokens = r.tokens, !.brace_balance = r.brace_balance,
                         !.col = st.col + 1]
    ELSE IF ch = "\n" \/ ch = "\r"
    THEN [st EXCEPT !.line = st.line + 1, !.col = 1]
    ELSE [st EXCEPT !.col = st.col + 1]

\* the locals of lex_string before its loop
LexStart == [line |-> 1, col |-> 1, tokens |-> << >>, brace_balance |-> 0, err |-> NoError]

\* Result values: Ok(v) and Err(e)
Ok(v) == [ok |-> TRUE, val |-> v, err |-> NoError]

Err(e) == [ok |-> FALSE, val |-> << >>, err |-> e]

\* stands for "lex_string has not returned"
Pending == [ok |-> FALSE, val |-> << >>, err |-> Error("Pending", NoToken)]

\* lex_string returning its tokens whatever the balance
LexReturn_unchecked(st) == Ok(st.tokens)

\* the match on brace_balance that ends lex_string
LexReturn(st) == IF st.brace_balance = 0 THEN Ok(st.tokens) ELSE Err(UnmatchedOpenBracket)

VARIABLES
    string,          \* lex_string: the source being scanned
    lpos,            \* lex_string: index of the next character of string (1-based)
    line,            \* lex_string: local line
    col,             \* lex_string: local col
    tokens,          \* lex_string: local tokens
    brace_balance,   \* lex_string: local brace_balance
    lex_ret,         \* lex_string: the value returned, Pending while scanning
    nfiles,          \* main: the number of file names on the command line
    file_i,          \* main: which file name the for loop is at (1-based)
    mpc,             \* main: "loop", "running" (in run_file's while loop), "returned", "exited", "panicked"
    results,         \* main: the result of each run_file call so far
    stdout,          \* the characters printed, as scalar values
    stderr,          \* the lines written to standard error
    inlog,           \* the lines read from standard input so far
    commands,        \* ProgState.commands
    data,            \* ProgState.data
    data_cap,        \* ProgState.data.capacity()
    command_index,   \* ProgState.command_index (0-based)
    data_index,      \* ProgState.data_index (0-based)
    loop_stack,      \* ProgState.loop_stack
    ptokens,         \* parse_tokens: the tokens given
    ppos,            \* parse_tokens: how many tokens the iterator has yielded
    pstack,          \* the vectors under construction: exprs of parse_tokens, then
                     \* lb_exprs of each parse_loop_block call that is open
    parse_ret,       \* parse_tokens: the value returned, Pending while parsing
    phist,           \* history: pstack after 0, 1, 2, ... tokens
    estack,          \* run of the expressions: the sequences being executed, outermost
                     \* first, each with the index of its current expression
    edata,           \* run of the expressions: the tape
    eptr,            \* run of the expressions: the pointer
    eout,            \* run of the expressions: the characters printed
    ein,             \* run of the expressions: how many lines it has read
    erep,            \* run of the expressions: repetitions done of the current Input
    eret             \* run of the expressions: its result, Pending while it runs

lexVars == <<string, lpos, line, col, tokens, brace_balance, lex_ret>>

mainVars == <<nfiles, file_i, mpc, results, stderr>>

ioVars == <<stdout, inlog>>

progVars == <<commands, data, data_cap, command_index, data_index, loop_stack>>

parseVars == <<ptokens, ppos, pstack, parse_ret, phist>>

execVars == <<estack, edata, eptr, eout, ein, erep, eret>>

vars == <<lexVars, mainVars, ioVars, progVars, parseVars, execVars>>

\* what the lexer, the run of a file, the parser leave alone
notLex == <<mainVars, ioVars, progVars, parseVars, execVars>>

notRun == <<lexVars, parseVars, execVars>>

notParse == <<lexVars, mainVars, ioVars, progVars, execVars>>

notExec == <<lexVars, mainVars, ioVars, progVars, parseVars>>

LexInit ==
    /\ string \in StringsUpTo(SourceChars, MaxLexLen)
    /\ lpos = 1
    /\ line = LexStart.line
    /\ col = LexStart.col
    /\ tokens = LexStart.tokens
    /\ brace_balance = LexStart.brace_balance
    /\ lex_ret = Pending

\* one iteration of the for loop of lex_string, `?` included
LexChar ==
    /\ lex_ret = Pending
    /\ lpos <= Len(string)
    /\ LET st == LexIter([line |-> line, col |-> col, tokens |-> tokens,
                          brace_balance |-> brace_balance, err |-> NoError], string[lpos])
       IN /\ line' = st.line
          /\ col' = st.col
          /\ tokens' = st.tokens
          /\ brace_balance' = st.brace_balance
          /\ lex_ret' = IF st.err # NoError THEN Err(st.err) ELSE Pending
          /\ lpos' = lpos + 1
    /\ UNCHANGED <<string, notLex>>

\* the end of lex_string: the loop is over, the balance decides the result
LexEnd ==
    /\ lex_ret = Pending
    /\ lpos > Len(string)
    /\ lex_ret' = LexReturn([line |-> line, col |-> col, tokens |-> tokens,
                             brace_balance |-> brace_balance, err |-> NoError])
    /\ UNCHANGED <<string, lpos, line, col, tokens, brace_balance, notLex>>

LexNext == LexChar \/ LexEnd

\* the lexer is not running
LexIdle ==
    /\ string = << >>
    /\ lpos = 1
    /\ line = LexStart.line
    /\ col = LexStart.col
    /\ tokens = LexStart.tokens
    /\ brace_balance = LexStart.brace_balance
    /\ lex_ret = Pending

RECURSIVE LexLoop(_, _, _)
\* the for loop of lex_string from character i on, stopping at the first error
LexLoop(str, i, st) ==
    IF i > Len(str) \/ st.err # NoError THEN st
    ELSE LexLoop(str, i + 1, LexIter(st, str[i]))

\* lex_string as one call
lex_string(str) ==
    LET st == LexLoop(str, 1, LexStart)
    IN IF st.err # NoError THEN Err(st.err) ELSE LexReturn(st)

(***************************************************************************)
(* The interpreter (progstate.rs).                                         *)
(***************************************************************************)
Max(a, b) == IF a >= b THEN a ELSE b

\* n cells more, all zero
Zeros(n) == [i \in 1..n |-> 0]

\* Vec::resize filling with ones
resize_with_ones(vec, new_len) == vec \o [i \in 1..(new_len - Len(vec)) |-> 1]

\* Vec::resize(new_len, 0) on a vector that is not longer than new_len
resize(vec, new_len) == vec \o Zeros(new_len - Len(vec))

\* Vec::reserve(additional): the capacity afterwards. The standard library grows
\* an exhausted vector to the larger of twice its capacity and the length asked
\* for, and to no less than 4 elements for elements of this size.
reserve(cap, len, additional) ==
    IF cap - len >= additional THEN cap
    ELSE Max(Max(2 * cap, len + additional), 4)

\* char::from_u32(val) is Some: val is a Unicode scalar value
IsScalarValue(val) == val <= 1114111 /\ ~(val >= 55296 /\ val <= 57343)

\* ProgState::from_tokens on a vector whose capacity is 4 from the start
from_tokens_capacity_four(toks) ==
    LET data_vec == <<0>>
        cap == 4
    IN [commands |-> toks, data |-> resize(data_vec, cap), data_cap |-> cap,
        command_index |-> 0, data_index |-> 0, loop_stack |-> << >>]

\* ProgState::from_tokens: the fields of the new ProgState
from_tokens(toks) ==
    LET data_vec == <<0>>
        cap == 1
    IN [commands |-> toks, data |-> resize(data_vec, cap), data_cap |-> cap,
        command_index |-> 0, data_index |-> 0, loop_stack |-> << >>]

\* ProgState::finished
finished == command_index >= Len(commands)

\* the field values that stand for "no ProgState exists"
NoProgState ==
    /\ commands = << >>
    /\ data = << >>
    /\ data_cap = 0
    /\ command_index = 0
    /\ data_index = 0
    /\ loop_stack = << >>

\* the bounds of the runs: the pointer, the cell values, the characters printed
\* and the lines read stay within these
MaxPtr == 4

MaxCell == 3

MaxOut == 3

MaxReads == 2

\* the Hello World program
HelloWorld ==
    <<"+", "+", "+", "+", "+", "+", "+", "+", "[">>
        \o <<">", "+", "+", "+", "+", "[">>
        \o <<">", "+", "+", ">", "+", "+", "+", ">", "+", "+", "+", ">", "+">>
        \o <<"<", "<", "<", "<", "-", "]">>
        \o <<">", "+", ">", "+", ">", "-", ">", ">", "+">>
        \o <<"[", "<", "]">>
        \o <<"<", "-", "]">>
        \o <<">", ">", ".">>
        \o <<">", "-", "-", "-", ".">>
        \o <<"+", "+", "+", "+", "+", "+", "+", ".", ".">>
        \o <<"+", "+", "+", ".">>
        \o <<">", ">", ".">>
        \o <<"<", "-", ".">>
        \o <<"<", ".">>
        \o <<"+", "+", "+", ".">>
        \o <<"-", "-", "-", "-", "-", "-", ".">>
        \o <<"-", "-", "-", "-", "-", "-", "-", "-", ".">>
        \o <<">", ">", "+", ".">>
        \o <<">", "+", "+", ".">>

\* the bounds of its run: the pointer, the cell values and the characters
\* printed stay within these
HelloMaxPtr == 6

HelloMaxCell == 114

HelloMaxOut == 13

\* the program that counts one cell up for as long as it is not zero, written
\* on two lines
CountingLoop == <<"+", "\n", "[", "+", "]">>

CountingLexed == lex_string(CountingLoop)

\* the width of a cell in the run of the counting program: the 32 bits of a u32
\* scaled down, so that the largest value is reached
CounterBits == 6

\* u32::MAX at that width
CellMax == 2 ^ CounterBits - 1

\* the counting program is running and the current cell holds the largest value
AtCellMax ==
    /\ commands = CountingLexed.val
    /\ data[data_index + 1] = CellMax

\* the bounds of the run of the current program
PtrBound == IF Len(commands) = Len(HelloWorld) THEN HelloMaxPtr ELSE MaxPtr

CellBound ==
    IF Len(commands) = Len(HelloWorld) THEN HelloMaxCell
    ELSE IF commands = CountingLexed.val THEN CellMax
    ELSE MaxCell

OutBound == IF Len(commands) = Len(HelloWorld) THEN HelloMaxOut ELSE MaxOut

\* whitespace that str::trim strips, among the characters the lines are made of
IsWhitespace(c) == c \in {9, 10, 11, 12, 13, 32}

RECURSIVE trim_start(_)
trim_start(s) ==
    IF s # << >> /\ IsWhitespace(Head(s)) THEN trim_start(Tail(s)) ELSE s

RECURSIVE trim_end(_)
trim_end(s) ==
    IF s # << >> /\ IsWhitespace(s[Len(s)]) THEN trim_end(SubSeq(s, 1, Len(s) - 1)) ELSE s

\* str::trim
trim(s) == trim_end(trim_start(s))

\* str::parse::<char>: Ok exactly for a string of one character
parse_char(s) == IF Len(s) = 1 THEN Ok(s[1]) ELSE Err(Error("CharTryFromError", NoToken))

\* input.trim().parse::<char>() on the line read
read_char(input) == parse_char(trim(input))

\* the last scalar value before the surrogate code points: the character U+D7FF
LastBeforeSurrogates == 55295

\* what io::stdin().read_line can give: a failure of the read, the end of the
\* input (an empty string), or a line: "\n", "\x01\n", " \x02\n", "\x01\x02\n",
\* "\u{D7FF}\n", "A\n", " \n"
StdinReads ==
    {[ok |-> FALSE, line |-> << >>]}
        \cup {[ok |-> TRUE, line |-> l] :
                l \in {<< >>, <<10>>, <<1, 10>>, <<32, 2, 10>>, <<1, 2, 10>>,
                       <<LastBeforeSurrogates, 10>>, <<65, 10>>, <<32, 10>>}}

\* Display for BrainfartError: the message and the position it names
Display(e) ==
    CASE e.kind = "UnmatchedOpenBracket" ->
           [text |-> "ERROR: Missing matching closing bracket ]", line |-> 0, col |-> 0]
      [] e.kind = "UnmatchedCloseBracket" ->
           [text |-> "Encountered unmatched closing bracket ]", line |-> e.token.line, col |-> e.token.col]
      [] e.kind = "PointZeroDec" ->
           [text |-> "Attempted to decrement pointer that is at index 0", line |-> e.token.line, col |-> e.token.col]
      [] e.kind = "ValZeroDec" ->
           [text |-> "Attempted to decrement value that is 0", line |-> e.token.line, col |-> e.token.col]
      [] e.kind = "Io" ->
           [text |-> "Failed to read character from input", line |-> e.token.line, col |-> e.token.col]

\* run() is called on a command of type ty: main is in run_file's while loop,
\* the ProgState is not finished
Running(ty) ==
    /\ mpc = "running"
    /\ ~finished
    /\ commands[command_index + 1].ty = ty

\* the current command's token
CurToken == commands[command_index + 1]

\* the current cell
CurVal == data[data_index + 1]

\* run() returned Ok(()): the while loop of run_file goes on
StepOk == UNCHANGED mainVars

\* main going on with the next file after an error
MainOnErr_continue == [mpc |-> "loop", file_i |-> file_i + 1]

\* the Err arm of the match in main: exit(1), inside the for loop
MainOnErr == [mpc |-> "exited", file_i |-> file_i]

\* run() returned Err(e) and the while loop of run_file goes on all the same
StepErr_run_goes_on(e) ==
    /\ results' = Append(results, Err(e))
    /\ stderr' = Append(stderr, Display(e))
    /\ UNCHANGED <<nfiles, file_i, mpc>>

\* run() returned Err(e): run_file returns it, main prints it and exits with 1
StepErr(e) ==
    /\ mpc' = MainOnErr.mpc
    /\ file_i' = MainOnErr.file_i
    /\ results' = Append(results, Err(e))
    /\ stderr' = Append(stderr, Display(e))
    /\ UNCHANGED nfiles

\* the thread panicked
StepPanic ==
    /\ mpc' = "panicked"
    /\ UNCHANGED <<nfiles, file_i, results, stderr>>

\* run_point_inc growing only once the index is past the capacity
NeedsGrow_late(index, cap) == index > cap

\* the test `self.data_index >= self.data.capacity()` of run_point_inc
NeedsGrow(index, cap) == index >= cap

\* run_point_inc
RunPointInc ==
    /\ Running("PointInc")
    /\ data_index < PtrBound
    /\ data_index' = data_index + 1
    /\ command_index' = command_index + 1
    /\ IF NeedsGrow(data_index + 1, data_cap)
       THEN LET add_space == (data_index + 1) - Len(data) + 1
                new_cap == reserve(data_cap, Len(data), add_space)
            IN /\ data_cap' = new_cap
               /\ data' = resize(data, new_cap)
       ELSE UNCHANGED <<data, data_cap>>
    /\ StepOk
    /\ UNCHANGED <<commands, loop_stack, ioVars, notRun>>

\* run_point_dec reporting the first command of the program
RunPointDec_first_token ==
    /\ Running("PointDec")
    /\ IF data_index = 0
       THEN /\ StepErr(Error("PointZeroDec", commands[1]))
            /\ UNCHANGED <<data_index, command_index>>
       ELSE /\ data_index' = data_index - 1
            /\ command_index' = command_index + 1
            /\ StepOk
    /\ UNCHANGED <<commands, data, data_cap, loop_stack, ioVars, notRun>>

\* run_point_dec moving on to the next command before it fails
RunPointDec_failing_late ==
    /\ Running("PointDec")
    /\ IF data_index = 0
       THEN /\ StepErr(Error("PointZeroDec", CurToken))
            /\ command_index' = command_index + 1
            /\ UNCHANGED data_index
       ELSE /\ data_index' = data_index - 1
            /\ command_index' = command_index + 1
            /\ StepOk
    /\ UNCHANGED <<commands, data, data_cap, loop_stack, ioVars, notRun>>

\* run_point_dec
RunPointDec ==
    /\ Running("PointDec")
    /\ IF data_index = 0
       THEN /\ StepErr(Error("PointZeroDec", CurToken))
            /\ UNCHANGED <<data_index, command_index>>
       ELSE /\ data_index' = data_index - 1
            /\ command_index' = command_index + 1
            /\ StepOk
    /\ UNCHANGED <<commands, data, data_cap, loop_stack, ioVars, notRun>>

\* the cell values the model follows: those within CellBound, the last scalar
\* value before the surrogates and the first surrogate
CellFollowed(val) ==
    val <= CellBound \/ val = LastBeforeSurrogates \/ val = LastBeforeSurrogates + 1

\* run_val_inc incrementing cell 0 wherever the pointer is
RunValInc_on_cell_zero ==
    /\ Running("ValInc")
    /\ CellFollowed(data[1] + 1)
    /\ data' = [data EXCEPT ![1] = data[1] + 1]
    /\ command_index' = command_index + 1
    /\ StepOk
    /\ UNCHANGED <<commands, data_cap, data_index, loop_stack, ioVars, notRun>>

\* run_val_inc moving on by two commands
RunValInc_skipping_next ==
    /\ Running("ValInc")
    /\ CellFollowed(CurVal + 1)
    /\ data' = [data EXCEPT ![data_index + 1] = CurVal + 1]
    /\ command_index' = command_index + 2
    /\ StepOk
    /\ UNCHANGED <<commands, data_cap, data_index, loop_stack, ioVars, notRun>>

\* what `+= 1` does to a u32 that holds u32::MAX: with overflow checks (the dev
\* profile) it panics, without them (the release profile) it wraps to 0
OverflowOutcomes == {"panic", "wrap"}

\* run_val_inc; only the counting program is followed up to the largest value
RunValInc ==
    /\ Running("ValInc")
    /\ CellFollowed(CurVal + 1) \/ AtCellMax
    /\ IF AtCellMax
       THEN \E outcome \in OverflowOutcomes :
              IF outcome = "panic"
              THEN /\ StepPanic
                   /\ UNCHANGED <<data, command_index>>
              ELSE /\ data' = [data EXCEPT ![data_index + 1] = 0]
                   /\ command_index' = command_index + 1
                   /\ StepOk
       ELSE /\ data' = [data EXCEPT ![data_index + 1] = CurVal + 1]
            /\ command_index' = command_index + 1
            /\ StepOk
    /\ UNCHANGED <<commands, data_cap, data_index, loop_stack, ioVars, notRun>>

\* run_val_dec leaving a zero cell at zero
RunValDec_saturating ==
    /\ Running("ValDec")
    /\ data' = [data EXCEPT ![data_index + 1] = IF CurVal = 0 THEN 0 ELSE CurVal - 1]
    /\ command_index' = command_index + 1
    /\ StepOk
    /\ UNCHANGED <<commands, data_cap, data_index, loop_stack, ioVars, notRun>>

\* run_val_dec
RunValDec ==
    /\ Running("ValDec")
    /\ CurVal = 0 \/ CellFollowed(CurVal - 1)
    /\ IF CurVal = 0
       THEN /\ StepErr(Error("ValZeroDec", CurToken))
            /\ UNCHANGED <<data, command_index>>
       ELSE /\ data' = [data EXCEPT ![data_index + 1] = CurVal - 1]
            /\ command_index' = command_index + 1
            /\ StepOk
    /\ UNCHANGED <<commands, data_cap, data_index, loop_stack, ioVars, notRun>>

\* run_output printing nothing when the command before it was an Output too and
\* the cell has no character
RunOutput_one_space_per_run ==
    /\ Running("Output")
    /\ Len(stdout) < OutBound
    /\ stdout' = IF IsScalarValue(CurVal) THEN Append(stdout, CurVal)
                 ELSE IF command_index > 0 /\ commands[command_index].ty = "Output"
                 THEN stdout
                 ELSE Append(stdout, 32)
    /\ command_index' = command_index + 1
    /\ StepOk
    /\ UNCHANGED <<commands, data, data_cap, data_index, loop_stack, inlog, notRun>>

\* run_output clearing the cell it has printed
RunOutput_clearing_cell ==
    /\ Running("Output")
    /\ Len(stdout) < OutBound
    /\ stdout' = Append(stdout, IF IsScalarValue(CurVal) THEN CurVal ELSE 32)
    /\ data' = [data EXCEPT ![data_index + 1] = 0]
    /\ command_index' = command_index + 1
    /\ StepOk
    /\ UNCHANGED <<commands, data_cap, data_index, loop_stack, inlog, notRun>>

\* run_output: the character of the cell's value, a space when there is none
RunOutput ==
    /\ Running("Output")
    /\ Len(stdout) < OutBound
    /\ stdout' = Append(stdout, IF IsScalarValue(CurVal) THEN CurVal ELSE 32)
    /\ command_index' = command_index + 1
    /\ StepOk
    /\ UNCHANGED <<commands, data, data_cap, data_index, loop_stack, inlog, notRun>>

\* run_input
RunInput ==
    /\ Running("Input")
    /\ Len(inlog) < MaxReads
    /\ \E r \in StdinReads :
         /\ inlog' = Append(inlog, r)
         /\ IF ~r.ok
            THEN \* .expect("Failed to read input")
                 /\ StepPanic
                 /\ UNCHANGED <<data, command_index>>
            ELSE LET val == read_char(r.line) IN
                 IF ~val.ok
                 THEN /\ StepErr(Error("Io", CurToken))
                      /\ UNCHANGED <<data, command_index>>
                 ELSE /\ data' = [data EXCEPT ![data_index + 1] = val.val]
                      /\ command_index' = command_index + 1
                      /\ StepOk
    /\ UNCHANGED <<commands, data_cap, data_index, loop_stack, stdout, notRun>>

\* the while loop of run_if_zero giving up one command before the end
FirstIfNonZeroAfter_short(cmds, i) ==
    LET found == {j \in (i + 1)..(Len(cmds) - 2) : cmds[j + 1].ty = "IfNonZero"}
    IN IF found = {} THEN Len(cmds)
       ELSE CHOOSE j \in found : \A k \in found : j <= k

\* the while loop of run_if_zero: the index of the first IfNonZero after index i,
\* or the number of commands when there is none
FirstIfNonZeroAfter(cmds, i) ==
    LET found == {j \in (i + 1)..(Len(cmds) - 1) : cmds[j + 1].ty = "IfNonZero"}
    IN IF found = {} THEN Len(cmds)
       ELSE CHOOSE j \in found : \A k \in found : j <= k

\* run_if_zero
RunIfZero ==
    /\ Running("IfZero")
    /\ IF CurVal = 0
       THEN LET close == FirstIfNonZeroAfter(commands, command_index) IN
            IF close = Len(commands)
            THEN /\ command_index' = close
                 /\ StepErr(UnmatchedOpenBracket)
                 /\ UNCHANGED loop_stack
            ELSE /\ command_index' = close + 1
                 /\ StepOk
                 /\ UNCHANGED loop_stack
       ELSE /\ loop_stack' = Append(loop_stack, command_index)
            /\ command_index' = command_index + 1
            /\ StepOk
    /\ UNCHANGED <<commands, data, data_cap, data_index, ioVars, notRun>>

\* run_if_non_zero going on after the `]` whatever the cell holds
RunIfNonZero_falls_through ==
    /\ Running("IfNonZero")
    /\ loop_stack' = SubSeq(loop_stack, 1, Len(loop_stack) - 1)
    /\ command_index' = command_index + 1
    /\ StepOk
    /\ UNCHANGED <<commands, data, data_cap, data_index, ioVars, notRun>>

\* run_if_non_zero
RunIfNonZero ==
    /\ Running("IfNonZero")
    /\ IF CurVal # 0
       THEN IF loop_stack = << >>
            THEN \* loop_stack.pop().unwrap() on None
                 /\ StepPanic
                 /\ UNCHANGED <<command_index, loop_stack>>
            ELSE /\ command_index' = loop_stack[Len(loop_stack)]
                 /\ loop_stack' = SubSeq(loop_stack, 1, Len(loop_stack) - 1)
                 /\ StepOk
       ELSE /\ loop_stack' = SubSeq(loop_stack, 1, Len(loop_stack) - 1)
            /\ command_index' = command_index + 1
            /\ StepOk
    /\ UNCHANGED <<commands, data, data_cap, data_index, ioVars, notRun>>

\* ProgState::run: one command
Run ==
    \/ RunPointInc
    \/ RunPointDec
    \/ RunValInc
    \/ RunValDec
    \/ RunOutput
    \/ RunInput
    \/ RunIfZero
    \/ RunIfNonZero

(***************************************************************************)
(* main and run_file (main.rs).                                            *)
(***************************************************************************)
\* main's for loop has a file name left and calls run_file
AtRunFile ==
    /\ mpc = "loop"
    /\ file_i <= nfiles

\* the start of run_file once lex_string has returned tokens_result: build the
\* ProgState, or return the lexer's error to main
RunLexed(tokens_result) ==
    /\ IF tokens_result.ok
       THEN LET ps == from_tokens(tokens_result.val) IN
            /\ commands' = ps.commands
            /\ data' = ps.data
            /\ data_cap' = ps.data_cap
            /\ command_index' = ps.command_index
            /\ data_index' = ps.data_index
            /\ loop_stack' = ps.loop_stack
            /\ mpc' = "running"
            /\ UNCHANGED <<nfiles, file_i, results, stderr>>
       ELSE /\ stderr' = stderr \o <<[text |-> "lex error", line |-> 0, col |-> 0],
                                     Display(tokens_result.err)>>
            /\ results' = Append(results, Err(tokens_result.err))
            /\ mpc' = MainOnErr.mpc
            /\ file_i' = MainOnErr.file_i
            /\ UNCHANGED <<nfiles, progVars>>
    /\ UNCHANGED <<ioVars, notRun>>

\* run_file on a readable file: lex_string(&contents), then the rest
RunFile(contents) == RunLexed(lex_string(contents))

\* run_file on a file that cannot be read: the closure of unwrap_or_else panics
RunFileUnreadable ==
    /\ AtRunFile
    /\ mpc' = "panicked"
    /\ UNCHANGED <<nfiles, file_i, results, stderr, progVars, ioVars, notRun>>

\* the while loop of run_file ends, run_file returns Ok(()), the ProgState is
\* dropped and main's for loop moves on
FileDone ==
    /\ mpc = "running"
    /\ finished
    /\ results' = Append(results, Ok(<< >>))
    /\ file_i' = file_i + 1
    /\ mpc' = "loop"
    /\ commands' = << >>
    /\ data' = << >>
    /\ data_cap' = 0
    /\ command_index' = 0
    /\ data_index' = 0
    /\ loop_stack' = << >>
    /\ UNCHANGED <<nfiles, stderr, ioVars, notRun>>

\* the for loop of main is over
MainReturn ==
    /\ mpc = "loop"
    /\ file_i > nfiles
    /\ mpc' = "returned"
    /\ UNCHANGED <<nfiles, file_i, results, stderr, progVars, ioVars, notRun>>

(***************************************************************************)
(* The parser (parser.rs). An Expr is its type, its count, its tokens and,  *)
(* for a LoopBlock, the expressions of its body.                           *)
(***************************************************************************)
\* Expr { ty: ty(n), tokens }
Expr(ty, n, toks) == [ty |-> ty, n |-> n, tokens |-> toks, exprs |-> << >>]

\* Expr { ty: ExprType::LoopBlock(Box::new(LoopBlock { exprs })), tokens: vec![] }
LoopBlockExpr(lb_exprs) == [ty |-> "LoopBlock", n |-> 0, tokens |-> << >>, exprs |-> lb_exprs]

Last(s) == s[Len(s)]

\* Vec::pop
Pop(s) == SubSeq(s, 1, Len(s) - 1)

\* exprs with its last element replaced
SetLast(s, e) == [s EXCEPT ![Len(s)] = e]

\* push_new_expr
push_new_expr(exprs, ty, token) == Append(exprs, Expr(ty, 1, <<token>>))

push_new_move_right(exprs, token) == push_new_expr(exprs, "MoveRight", token)

push_new_move_left(exprs, token) == push_new_expr(exprs, "MoveLeft", token)

push_new_add(exprs, token) == push_new_expr(exprs, "Add", token)

push_new_sub(exprs, token) == push_new_expr(exprs, "Sub", token)

push_new_output(exprs, token) == push_new_expr(exprs, "Output", token)

push_new_input(exprs, token) == push_new_expr(exprs, "Input", token)

\* prev.ty = ty(x + 1); prev.tokens.push(token)
Extend(exprs, token) ==
    LET prev == Last(exprs)
    IN SetLast(exprs, [prev EXCEPT !.n = prev.n + 1, !.tokens = Append(prev.tokens, token)])

\* parse_point_inc cancelling against a trailing MoveLeft
parse_point_inc_cancelling(exprs, token) ==
    IF exprs = << >> THEN push_new_move_right(exprs, token)
    ELSE IF Last(exprs).ty = "MoveRight" THEN Extend(exprs, token)
    ELSE IF Last(exprs).ty = "MoveLeft" /\ Last(exprs).n = 1 THEN Pop(exprs)
    ELSE push_new_move_right(exprs, token)

\* parse_point_inc starting a new run every time
parse_point_inc_never_merging(exprs, token) == push_new_move_right(exprs, token)

\* parse_point_inc
parse_point_inc(exprs, token) ==
    IF exprs = << >> THEN push_new_move_right(exprs, token)
    ELSE IF Last(exprs).ty = "MoveRight" THEN Extend(exprs, token)
    ELSE push_new_move_right(exprs, token)

\* parse_point_dec keeping a cancelled MoveRight(1) as MoveRight(0)
parse_point_dec_keeping_zero(exprs, token) ==
    IF exprs = << >> THEN push_new_move_left(exprs, token)
    ELSE LET prev == Last(exprs) IN
         CASE prev.ty = "MoveRight" ->
                SetLast(exprs, [prev EXCEPT !.n = prev.n - 1, !.tokens = Pop(prev.tokens)])
           [] prev.ty = "MoveLeft" -> Extend(exprs, token)
           [] OTHER -> push_new_move_left(exprs, token)

\* parse_point_dec putting the cancelling token in the place of the popped one
parse_point_dec_recording_token(exprs, token) ==
    IF exprs = << >> THEN push_new_move_left(exprs, token)
    ELSE LET prev == Last(exprs) IN
         CASE prev.ty = "MoveRight" ->
                IF prev.n = 1 THEN Pop(exprs)
                ELSE SetLast(exprs, [prev EXCEPT !.n = prev.n - 1,
                                                 !.tokens = Append(Pop(Pop(prev.tokens)), token)])
           [] prev.ty = "MoveLeft" -> Extend(exprs, token)
           [] OTHER -> push_new_move_left(exprs, token)

\* parse_point_dec merging with a MoveLeft that ends the body of a trailing loop
parse_point_dec_into_loop(exprs, token) ==
    IF exprs = << >> THEN push_new_move_left(exprs, token)
    ELSE LET prev == Last(exprs) IN
         CASE prev.ty = "MoveRight" ->
                IF prev.n = 1 THEN Pop(exprs)
                ELSE SetLast(exprs, [prev EXCEPT !.n = prev.n - 1, !.tokens = Pop(prev.tokens)])
           [] prev.ty = "MoveLeft" -> Extend(exprs, token)
           [] prev.ty = "LoopBlock" /\ prev.exprs # << >> /\ Last(prev.exprs).ty = "MoveLeft" ->
                SetLast(exprs, [prev EXCEPT !.exprs = Extend(prev.exprs, token)])
           [] OTHER -> push_new_move_left(exprs, token)

\* parse_point_dec
parse_point_dec(exprs, token) ==
    IF exprs = << >> THEN push_new_move_left(exprs, token)
    ELSE LET prev == Last(exprs) IN
         CASE prev.ty = "MoveRight" ->
                IF prev.n = 1 THEN Pop(exprs)
                ELSE SetLast(exprs, [prev EXCEPT !.n = prev.n - 1, !.tokens = Pop(prev.tokens)])
           [] prev.ty = "MoveLeft" -> Extend(exprs, token)
           [] OTHER -> push_new_move_left(exprs, token)

\* parse_val_inc
parse_val_inc(exprs, token) ==
    IF exprs = << >> THEN push_new_add(exprs, token)
    ELSE LET prev == Last(exprs) IN
         CASE prev.ty = "Add" -> Extend(exprs, token)
           [] prev.ty = "Set" -> Extend(exprs, token)
           [] OTHER -> push_new_add(exprs, token)

\* parse_val_dec leaving the tokens of a decremented Add as they are
parse_val_dec_keeping_token(exprs, token) ==
    IF exprs = << >> THEN Ok(push_new_sub(exprs, token))
    ELSE LET prev == Last(exprs) IN
         CASE prev.ty = "Add" ->
                IF prev.n = 1 THEN Ok(Pop(exprs))
                ELSE Ok(SetLast(exprs, [prev EXCEPT !.n = prev.n - 1]))
           [] prev.ty = "Sub" -> Ok(Extend(exprs, token))
           [] prev.ty = "Set" ->
                IF prev.n = 0 THEN Err(Error("ValZeroDec", token))
                ELSE Ok(SetLast(exprs, [prev EXCEPT !.n = prev.n - 1,
                                                    !.tokens = Append(prev.tokens, token)]))
           [] OTHER -> Ok(push_new_sub(exprs, token))

\* parse_val_dec without the test for Set(0)
parse_val_dec_unchecked(exprs, token) ==
    IF exprs = << >> THEN Ok(push_new_sub(exprs, token))
    ELSE LET prev == Last(exprs) IN
         CASE prev.ty = "Add" ->
                IF prev.n = 1 THEN Ok(Pop(exprs))
                ELSE Ok(SetLast(exprs, [prev EXCEPT !.n = prev.n - 1, !.tokens = Pop(prev.tokens)]))
           [] prev.ty = "Sub" -> Ok(Extend(exprs, token))
           [] prev.ty = "Set" ->
                Ok(SetLast(exprs, [prev EXCEPT !.n = IF prev.n = 0 THEN 0 ELSE prev.n - 1,
                                               !.tokens = Append(prev.tokens, token)]))
           [] OTHER -> Ok(push_new_sub(exprs, token))

\* parse_val_dec: Ok(the vector afterwards) or Err(ValZeroDec(token))
parse_val_dec(exprs, token) ==
    IF exprs = << >> THEN Ok(push_new_sub(exprs, token))
    ELSE LET prev == Last(exprs) IN
         CASE prev.ty = "Add" ->
                IF prev.n = 1 THEN Ok(Pop(exprs))
                ELSE Ok(SetLast(exprs, [prev EXCEPT !.n = prev.n - 1, !.tokens = Pop(prev.tokens)]))
           [] prev.ty = "Sub" -> Ok(Extend(exprs, token))
           [] prev.ty = "Set" ->
                IF prev.n = 0 THEN Err(Error("ValZeroDec", token))
                ELSE Ok(SetLast(exprs, [prev EXCEPT !.n = prev.n - 1,
                                                    !.tokens = Append(prev.tokens, token)]))
           [] OTHER -> Ok(push_new_sub(exprs, token))

\* parse_output extending a trailing Input run as well
parse_output_joining_input(exprs, token) ==
    IF exprs = << >> THEN push_new_output(exprs, token)
    ELSE IF Last(exprs).ty \in {"Output", "Input"} THEN Extend(exprs, token)
    ELSE push_new_output(exprs, token)

\* parse_output
parse_output(exprs, token) ==
    IF exprs = << >> THEN push_new_output(exprs, token)
    ELSE IF Last(exprs).ty = "Output" THEN Extend(exprs, token)
    ELSE push_new_output(exprs, token)

\* parse_input
parse_input(exprs, token) ==
    IF exprs = << >> THEN push_new_input(exprs, token)
    ELSE IF Last(exprs).ty = "Input" THEN Extend(exprs, token)
    ELSE push_new_input(exprs, token)

\* parse_loop_block taking the Set's token from the IfNonZero's side: no token
LoopBlockResult_without_token(lb_exprs, at_if_non_zero) ==
    IF at_if_non_zero /\ Len(lb_exprs) = 1 /\ lb_exprs[1].ty = "Sub" /\ lb_exprs[1].n = 1
    THEN Expr("Set", 0, << >>)
    ELSE LoopBlockExpr(lb_exprs)

\* parse_loop_block replacing a body of one Sub of any count
LoopBlockResult_any_sub(lb_exprs, at_if_non_zero) ==
    IF at_if_non_zero /\ Len(lb_exprs) = 1 /\ lb_exprs[1].ty = "Sub"
    THEN Expr("Set", 0, <<lb_exprs[1].tokens[1]>>)
    ELSE LoopBlockExpr(lb_exprs)

\* parse_loop_block at the IfNonZero that ends it, or at the end of the tokens:
\* the expression pushed on the caller's vector for the body lb_exprs
LoopBlockResult(lb_exprs, at_if_non_zero) ==
    IF at_if_non_zero /\ Len(lb_exprs) = 1 /\ lb_exprs[1].ty = "Sub" /\ lb_exprs[1].n = 1
    THEN Expr("Set", 0, <<lb_exprs[1].tokens[1]>>)
    ELSE LoopBlockExpr(lb_exprs)

\* the token the iterator yields next
NextToken == ptokens[ppos + 1]

\* the parser is running and its iterator yields a token of type ty
Parsing(ty) ==
    /\ parse_ret = Pending
    /\ ppos < Len(ptokens)
    /\ NextToken.ty = ty

\* the vector the token is parsed into: exprs, or the innermost lb_exprs
TopExprs == Last(pstack)

\* the token is parsed, the vector it was parsed into is now new_exprs
Parsed(new_exprs) ==
    /\ pstack' = SetLast(pstack, new_exprs)
    /\ phist' = Append(phist, pstack')
    /\ ppos' = ppos + 1
    /\ UNCHANGED <<ptokens, parse_ret>>

\* a PointInc token, in parse_tokens or in parse_loop_block
ParsePointInc ==
    /\ Parsing("PointInc")
    /\ Parsed(parse_point_inc(TopExprs, NextToken))
    /\ UNCHANGED notParse

ParsePointDec ==
    /\ Parsing("PointDec")
    /\ Parsed(parse_point_dec(TopExprs, NextToken))
    /\ UNCHANGED notParse

ParseValInc ==
    /\ Parsing("ValInc")
    /\ Parsed(parse_val_inc(TopExprs, NextToken))
    /\ UNCHANGED notParse

\* a ValDec token; `?` returns its error from every open call
ParseValDec ==
    /\ Parsing("ValDec")
    /\ LET r == parse_val_dec(TopExprs, NextToken) IN
       IF r.ok THEN Parsed(r.val)
       ELSE /\ parse_ret' = Err(r.err)
            /\ ppos' = ppos + 1
            /\ UNCHANGED <<ptokens, pstack, phist>>
    /\ UNCHANGED notParse

ParseOutput ==
    /\ Parsing("Output")
    /\ Parsed(parse_output(TopExprs, NextToken))
    /\ UNCHANGED notParse

ParseInput ==
    /\ Parsing("Input")
    /\ Parsed(parse_input(TopExprs, NextToken))
    /\ UNCHANGED notParse

\* an IfZero token: parse_loop_block is called and starts an empty lb_exprs
ParseIfZero ==
    /\ Parsing("IfZero")
    /\ pstack' = Append(pstack, << >>)
    /\ phist' = Append(phist, pstack')
    /\ ppos' = ppos + 1
    /\ UNCHANGED <<ptokens, parse_ret, notParse>>

\* an IfNonZero token: parse_tokens ignores it, parse_loop_block returns
ParseIfNonZero ==
    /\ Parsing("IfNonZero")
    /\ pstack' = IF Len(pstack) = 1 THEN pstack
                 ELSE LET callers == Pop(pstack)
                      IN SetLast(callers, Append(Last(callers), LoopBlockResult(TopExprs, TRUE)))
    /\ phist' = Append(phist, pstack')
    /\ ppos' = ppos + 1
    /\ UNCHANGED <<ptokens, parse_ret, notParse>>

RECURSIVE Unwind(_)
\* the iterator is exhausted: every open parse_loop_block leaves its while loop
\* and pushes its LoopBlock; what is left is exprs of parse_tokens
Unwind(stack) ==
    IF Len(stack) = 1 THEN stack[1]
    ELSE LET callers == Pop(stack)
         IN Unwind(SetLast(callers, Append(Last(callers), LoopBlockResult(Last(stack), FALSE))))

\* the iterator is exhausted: parse_tokens returns Ok(exprs)
ParseEnd ==
    /\ parse_ret = Pending
    /\ ppos = Len(ptokens)
    /\ parse_ret' = Ok(Unwind(pstack))
    /\ UNCHANGED <<ptokens, ppos, pstack, phist, notParse>>

ParseNext ==
    \/ ParsePointInc
    \/ ParsePointDec
    \/ ParseValInc
    \/ ParseValDec
    \/ ParseOutput
    \/ ParseInput
    \/ ParseIfZero
    \/ ParseIfNonZero
    \/ ParseEnd

\* parse_tokens is entered with toks
ParseStart(toks) ==
    /\ ptokens = toks
    /\ ppos = 0
    /\ pstack = << << >> >>
    /\ parse_ret = Pending
    /\ phist = <<pstack>>

\* stands for "parse_tokens has not been called"
NotCalled == [ok |-> FALSE, val |-> << >>, err |-> Error("NotCalled", NoToken)]

ParseIdle ==
    /\ ptokens = << >>
    /\ ppos = 0
    /\ pstack = << << >> >>
    /\ parse_ret = NotCalled
    /\ phist = << >>

(***************************************************************************)
(* The run of the expressions parse_tokens returns, node by node as the     *)
(* specification of the interpreter gives it (section 4.3): the repository  *)
(* holds no code that runs them. A line is turned into a character as      *)
(* run_input does it.                                                      *)
(***************************************************************************)
\* the sequence being executed and its current expression
ExecFrame == Last(estack)

ExecExpr == ExecFrame.exprs[ExecFrame.i]

\* the run is at an expression of type ty
Executing(ty) ==
    /\ eret = Pending
    /\ ExecFrame.i <= Len(ExecFrame.exprs)
    /\ ExecExpr.ty = ty

\* the current cell of the run of the expressions
ExecVal == edata[eptr + 1]

\* the current expression is done: on to the next of its sequence
ExecAdvance == estack' = SetLast(estack, [ExecFrame EXCEPT !.i = ExecFrame.i + 1])

\* MoveRight(n): advance the pointer by n, growing the tape with zero cells when
\* the position is past its end
ExecMoveRight ==
    /\ Executing("MoveRight")
    /\ eptr + ExecExpr.n <= MaxPtr
    /\ eptr' = eptr + ExecExpr.n
    /\ edata' = IF eptr' >= Len(edata)
                THEN resize(edata, reserve(Len(edata), Len(edata), eptr' - Len(edata) + 1))
                ELSE edata
    /\ ExecAdvance
    /\ UNCHANGED <<eout, ein, erep, eret, notExec>>

\* MoveLeft(n): a pointer-underflow error if n exceeds the pointer
ExecMoveLeft ==
    /\ Executing("MoveLeft")
    /\ IF ExecExpr.n > eptr
       THEN /\ eret' = Err(Error("PointZeroDec", ExecExpr.tokens[1]))
            /\ UNCHANGED <<eptr, estack>>
       ELSE /\ eptr' = eptr - ExecExpr.n
            /\ ExecAdvance
            /\ UNCHANGED eret
    /\ UNCHANGED <<edata, eout, ein, erep, notExec>>

\* Add(n): add n to the current cell
ExecAdd ==
    /\ Executing("Add")
    /\ \A k \in 1..ExecExpr.n : CellFollowed(ExecVal + k)
    /\ edata' = [edata EXCEPT ![eptr + 1] = ExecVal + ExecExpr.n]
    /\ ExecAdvance
    /\ UNCHANGED <<eptr, eout, ein, erep, eret, notExec>>

\* Sub(n): a decrement-underflow error if n exceeds the current cell
ExecSub ==
    /\ Executing("Sub")
    /\ \A k \in 1..ExecExpr.n : k > ExecVal \/ CellFollowed(ExecVal - k)
    /\ IF ExecExpr.n > ExecVal
       THEN /\ eret' = Err(Error("ValZeroDec", ExecExpr.tokens[1]))
            /\ UNCHANGED <<edata, estack>>
       ELSE /\ edata' = [edata EXCEPT ![eptr + 1] = ExecVal - ExecExpr.n]
            /\ ExecAdvance
            /\ UNCHANGED eret
    /\ UNCHANGED <<eptr, eout, ein, erep, notExec>>

\* Set(n): overwrite the current cell
ExecSet ==
    /\ Executing("Set")
    /\ edata' = [edata EXCEPT ![eptr + 1] = ExecExpr.n]
    /\ ExecAdvance
    /\ UNCHANGED <<eptr, eout, ein, erep, eret, notExec>>

\* Output(n): the character of the cell n times, or one space when it has none
ExecOutput ==
    /\ Executing("Output")
    /\ Len(eout) + ExecExpr.n <= MaxOut
    /\ eout' = IF IsScalarValue(ExecVal)
               THEN eout \o [k \in 1..ExecExpr.n |-> ExecVal]
               ELSE Append(eout, 32)
    /\ ExecAdvance
    /\ UNCHANGED <<edata, eptr, ein, erep, eret, notExec>>

\* Input(n), one repetition: the next line of the same standard input the direct
\* run read from (whatever comes, past the lines that run read)
ExecInput ==
    /\ Executing("Input")
    /\ ein < MaxReads
    /\ \E r \in (IF ein < Len(inlog) THEN {inlog[ein + 1]} ELSE StdinReads) :
         /\ ein' = ein + 1
         /\ LET val == read_char(r.line) IN
            IF ~r.ok \/ ~val.ok
            THEN /\ eret' = Err(Error("Io", ExecExpr.tokens[1]))
                 /\ UNCHANGED <<edata, estack, erep>>
            ELSE /\ edata' = [edata EXCEPT ![eptr + 1] = val.val]
                 /\ IF erep + 1 = ExecExpr.n
                    THEN erep' = 0 /\ ExecAdvance
                    ELSE erep' = erep + 1 /\ UNCHANGED estack
                 /\ UNCHANGED eret
    /\ UNCHANGED <<eptr, eout, notExec>>

\* Loop: the check before every iteration: the body when the cell is not zero,
\* the next expression when it is
ExecLoop ==
    /\ Executing("LoopBlock")
    /\ IF ExecVal # 0
       THEN estack' = Append(estack, [exprs |-> ExecExpr.exprs, i |-> 1])
       ELSE ExecAdvance
    /\ UNCHANGED <<edata, eptr, eout, ein, erep, eret, notExec>>

\* the body of a loop is done: back to the check of its Loop
ExecBodyEnd ==
    /\ eret = Pending
    /\ ExecFrame.i > Len(ExecFrame.exprs)
    /\ Len(estack) > 1
    /\ estack' = Pop(estack)
    /\ UNCHANGED <<edata, eptr, eout, ein, erep, eret, notExec>>

\* the outermost sequence is done
ExecDone ==
    /\ eret = Pending
    /\ ExecFrame.i > Len(ExecFrame.exprs)
    /\ Len(estack) = 1
    /\ eret' = Ok(<< >>)
    /\ UNCHANGED <<estack, edata, eptr, eout, ein, erep, notExec>>

ExecNext ==
    \/ ExecMoveRight
    \/ ExecMoveLeft
    \/ ExecAdd
    \/ ExecSub
    \/ ExecSet
    \/ ExecOutput
    \/ ExecInput
    \/ ExecLoop
    \/ ExecBodyEnd
    \/ ExecDone

ExecIdle ==
    /\ estack = << >>
    /\ edata = << >>
    /\ eptr = 0
    /\ eout = << >>
    /\ ein = 0
    /\ erep = 0
    /\ eret = NotCalled

\* the direct run of the file has ended: finished, stopped by an error or panicked
DirectRunEnded ==
    /\ commands # << >>
    /\ \/ mpc = "running" /\ finished
       \/ mpc = "exited"
       \/ mpc = "panicked"

\* the tokens the direct run executed are handed to parse_tokens
OptimizedParseStart ==
    /\ DirectRunEnded
    /\ parse_ret = NotCalled
    /\ ptokens' = commands
    /\ ppos' = 0
    /\ pstack' = << << >> >>
    /\ parse_ret' = Pending
    /\ phist' = <<pstack'>>
    /\ UNCHANGED notParse

\* the expressions parse_tokens returned are run on a fresh tape
OptimizedRunStart ==
    /\ parse_ret.ok
    /\ eret = NotCalled
    /\ estack' = <<[exprs |-> parse_ret.val, i |-> 1]>>
    /\ edata' = <<0>>
    /\ eptr' = 0
    /\ eout' = << >>
    /\ ein' = 0
    /\ erep' = 0
    /\ eret' = Pending
    /\ UNCHANGED notExec

(***************************************************************************)
(* Specifications.                                                         *)
(***************************************************************************)
\* main has not started, or is not part of the run
MainInit(n) ==
    /\ nfiles = n
    /\ file_i = 1
    /\ mpc = "loop"
    /\ results = << >>
    /\ stderr = << >>
    /\ stdout = << >>
    /\ inlog = << >>
    /\ NoProgState

\* the longest source of a file, in the runs of one file and of several files
MaxSrcLen == 5

MainSrcLen == 2

MaxFiles == 2

\* one file on the command line
Init == LexIdle /\ MainInit(1) /\ ParseIdle /\ ExecIdle

Next ==
    \/ AtRunFile /\ \E contents \in StringsUpTo(CommandChars, MaxSrcLen) : RunFile(contents)
    \/ RunFileUnreadable
    \/ Run
    \/ FileDone
    \/ MainReturn

Spec == Init /\ [][Next]_vars

\* the sources of the files when there are several: every source of up to
\* MainSrcLen commands, and one program with a loop
MainSources == StringsUpTo(CommandChars, MainSrcLen) \cup {<<"+", "[", "-", "]">>}

\* up to MaxFiles files on the command line
InitMain == LexIdle /\ ParseIdle /\ ExecIdle /\ \E n \in 0..MaxFiles : MainInit(n)

NextMain ==
    \/ AtRunFile /\ \E contents \in MainSources : RunFile(contents)
    \/ RunFileUnreadable
    \/ Run
    \/ FileDone
    \/ MainReturn

SpecMain == InitMain /\ [][NextMain]_vars

\* lex_string alone, on every source up to MaxLexLen characters
InitLex == LexInit /\ MainInit(0) /\ ParseIdle /\ ExecIdle

SpecLex == InitLex /\ [][LexNext]_vars

\* the longest source whose tokens are parsed
MaxParseLen == 5

\* the token sequences lex_string returns for the sources of up to n commands
LexedSources(n) ==
    {lex_string(src).val : src \in {t \in StringsUpTo(CommandChars, n) : lex_string(t).ok}}

\* parse_tokens alone, on the tokens of every source the lexer accepts
InitParse ==
    /\ LexIdle
    /\ MainInit(0)
    /\ ExecIdle
    /\ \E toks \in LexedSources(MaxParseLen) : ParseStart(toks)

SpecParse == InitParse /\ [][ParseNext]_vars

\* the longest source run both ways
MaxEqLen == 5

\* one source, run command by command, then parsed and run expression by expression
NextEquiv ==
    \/ AtRunFile /\ \E contents \in StringsUpTo(CommandChars, MaxEqLen) : RunFile(contents)
    \/ Run
    \/ OptimizedParseStart
    \/ ParseNext
    \/ OptimizedRunStart
    \/ ExecNext

SpecEquiv == Init /\ [][NextEquiv]_vars

\* the Hello World program as the only file: it holds no `,`, so run() never
\* takes its Input arm; the process runs on until main returns
HelloLexed == lex_string(HelloWorld)

NextHello ==
    \/ AtRunFile /\ RunLexed(HelloLexed)
    \/ RunPointInc
    \/ RunPointDec
    \/ RunValInc
    \/ RunValDec
    \/ RunOutput
    \/ RunIfZero
    \/ RunIfNonZero
    \/ FileDone
    \/ MainReturn

SpecHello == Init /\ [][NextHello]_vars /\ WF_vars(NextHello)

\* the counting program as the only file
NextCount ==
    \/ AtRunFile /\ RunLexed(CountingLexed)
    \/ RunValInc
    \/ RunIfZero
    \/ RunIfNonZero
    \/ FileDone
    \/ MainReturn

SpecCount == Init /\ [][NextCount]_vars

(***************************************************************************)
(* Properties.                                                             *)
(***************************************************************************)
\* the tokens of a source the lexer accepts
Lexed(src) == lex_string(src).val

RECURSIVE KindsCounts(_)
\* a vector of expressions without its tokens: the kinds and the counts
KindsCounts(exprs) ==
    [i \in 1..Len(exprs) |->
        [ty |-> exprs[i].ty, n |-> exprs[i].n, exprs |-> KindsCounts(exprs[i].exprs)]]

\* the same of every vector under construction
StackKindsCounts(stack) == [i \in 1..Len(stack) |-> KindsCounts(stack[i])]

\* two tapes with the same contents: the same value in every cell either holds,
\* a cell past the end of the shorter one being an untouched zero
SameTape(t1, t2) ==
    \A i \in 1..Max(Len(t1), Len(t2)) :
        (IF i <= Len(t1) THEN t1[i] ELSE 0) = (IF i <= Len(t2) THEN t2[i] ELSE 0)

\* C1: when the direct run of the tokens and the run of the expressions parsed
\* from them have both completed, on the same input, they have printed the same
\* characters and their tapes hold the same contents.
C1_OptimizedRunIsEquivalent ==
    (mpc = "running" /\ finished /\ eret.ok)
        => (eout = stdout /\ SameTape(edata, data))

\* C5 as stated: the sources "<>" and "-+" (the negative command first) each
\* parse to an empty expression sequence.
C5_NegativeFirstParsesEmpty ==
    (parse_ret # Pending /\ ptokens \in {Lexed(<<"<", ">">>), Lexed(<<"-", "+">>)})
        => parse_ret = Ok(<< >>)

\* C5 as the code has it: with the negative command first nothing cancels: "<>"
\* parses to [MoveLeft(1), MoveRight(1)] and "-+" to [Sub(1), Add(1)], each
\* expression carrying its own token.
C5_NegativeFirstIsKept ==
    parse_ret # Pending =>
        /\ ptokens = Lexed(<<"<", ">">>) =>
             parse_ret = Ok(<<Expr("MoveLeft", 1, <<Token("PointDec", 1, 1)>>),
                              Expr("MoveRight", 1, <<Token("PointInc", 1, 2)>>)>>)
        /\ ptokens = Lexed(<<"-", "+">>) =>
             parse_ret = Ok(<<Expr("Sub", 1, <<Token("ValDec", 1, 1)>>),
                              Expr("Add", 1, <<Token("ValInc", 1, 2)>>)>>)

C5_Witness == ptokens = Lexed(<<"<", ">">>) /\ parse_ret.ok

\* C6: a `>` directly followed by `<`, or a `+` directly followed by `-`, leaves
\* the kinds and counts of every vector under construction as they were before
\* the two tokens, whatever was parsed before them; "><" and "+-" alone parse to
\* an empty expression sequence.
C6_PositiveThenNegativeCancels ==
    /\ \A k \in 0..(ppos - 2) :
         (\/ ptokens[k + 1].ty = "PointInc" /\ ptokens[k + 2].ty = "PointDec"
          \/ ptokens[k + 1].ty = "ValInc" /\ ptokens[k + 2].ty = "ValDec")
            => /\ Len(phist) >= k + 3
               /\ StackKindsCounts(phist[k + 3]) = StackKindsCounts(phist[k + 1])
    /\ (parse_ret # Pending /\ ptokens \in {Lexed(<<">", "<">>), Lexed(<<"+", "-">>)})
            => parse_ret = Ok(<< >>)

C6_Witness ==
    /\ ptokens = Lexed(<<"[", "-", "]", "+", "-">>)
    /\ parse_ret.ok
    /\ KindsCounts(parse_ret.val) = KindsCounts(<<Expr("Set", 0, << >>)>>)

\* the source "[-]" followed by k `+`
ZeroLoopPlus(k) == <<"[", "-", "]">> \o [i \in 1..k |-> "+"]

\* C7: "[-]" followed by k `+` commands (k >= 0) parses to exactly [Set(k)],
\* whose tokens are the token of the `-` and then the k tokens of the `+`.
C7_ZeroLoopIsSet ==
    \A k \in 0..(MaxParseLen - 3) :
        (parse_ret # Pending /\ ptokens = Lexed(ZeroLoopPlus(k)))
            => parse_ret = Ok(<<Expr("Set", k, <<Token("ValDec", 1, 2)>>
                                        \o [i \in 1..k |-> Token("ValInc", 1, 3 + i)])>>)

C7_Witness == ptokens = Lexed(ZeroLoopPlus(2)) /\ parse_ret.ok

\* C8: a `-` token parsed onto a trailing Set(0) makes parse_tokens return
\* ValZeroDec with that token (as "[-]--" does); onto a trailing Set(n), n > 0,
\* it leaves Set(n - 1) in its place and the parse goes on.
C8_DecrementOfSet ==
    [][/\ (Parsing("ValDec") /\ TopExprs # << >> /\ Last(TopExprs).ty = "Set") =>
            IF Last(TopExprs).n = 0
            THEN parse_ret' = Err(Error("ValZeroDec", NextToken))
            ELSE /\ parse_ret' = Pending
                 /\ ppos' = ppos + 1
                 /\ Len(Last(pstack')) = Len(TopExprs)
                 /\ Last(Last(pstack')).ty = "Set"
                 /\ Last(Last(pstack')).n = Last(TopExprs).n - 1
       /\ (ptokens = Lexed(<<"[", "-", "]", "-", "-">>) /\ parse_ret' # Pending) =>
            parse_ret'.err.kind = "ValZeroDec"]_vars

C8_Witness ==
    /\ parse_ret.err.kind = "ValZeroDec"
    /\ ppos < Len(ptokens)

\* a character that ends a line
IsLineBreak(c) == c = "\n" \/ c = "\r"

\* the line of the i-th character of str: one more than the line breaks before it
LineOf(str, i) == 1 + Cardinality({j \in 1..(i - 1) : IsLineBreak(str[j])})

\* the column of the i-th character of str: its distance from the last line
\* break before it, or from the start of str
ColOf(str, i) ==
    LET breaks == {j \in 1..(i - 1) : IsLineBreak(str[j])}
    IN IF breaks = {} THEN i
       ELSE i - (CHOOSE j \in breaks : \A k \in breaks : k <= j)

\* C9: a `]` met while the nesting counter is 0 makes lex_string return, at once,
\* UnmatchedCloseBracket with the line and column of that `]` and no tokens;
\* nothing is scanned after lex_string has returned.
C9_UnmatchedCloseFailsAtOnce ==
    [][/\ (lex_ret = Pending /\ lpos <= Len(string) /\ string[lpos] = "]" /\ brace_balance = 0)
            => /\ lex_ret' = Err(Error("UnmatchedCloseBracket",
                                       Token("IfNonZero", LineOf(string, lpos), ColOf(string, lpos))))
               /\ lex_ret'.val = << >>
               /\ string = <<"]">> => lex_ret'.err.token = Token("IfNonZero", 1, 1)
       /\ lex_ret # Pending => UNCHANGED lexVars]_vars

C9_Witness ==
    /\ lex_ret.err.kind = "UnmatchedCloseBracket"
    /\ lpos <= Len(string)
    /\ tokens # << >>

\* how many characters c the first n characters of str hold
CountIn(str, n, c) == Cardinality({j \in 1..n : str[j] = c})

\* no `]` of str is unmatched: no prefix holds more `]` than `[`
NoUnmatchedClose(str) ==
    \A n \in 1..Len(str) : CountIn(str, n, "]") <= CountIn(str, n, "[")

\* C10: a source with no unmatched `]` and some `[` never closed is scanned to
\* its end and lex_string returns UnmatchedOpenBracket, which carries no token.
C10_UnmatchedOpenFailsAtEnd ==
    (/\ lex_ret # Pending
     /\ NoUnmatchedClose(string)
     /\ CountIn(string, Len(string), "[") # CountIn(string, Len(string), "]"))
        => /\ lex_ret = Err(Error("UnmatchedOpenBracket", NoToken))
           /\ lpos = Len(string) + 1

C10_Witness ==
    /\ lex_ret = Err(UnmatchedOpenBracket)
    /\ Len(string) = MaxLexLen
    /\ CountIn(string, Len(string), "]") > 0

\* one of the 8 command characters
IsCommand(c) == c \in CommandChars

\* the index in str of its k-th command character
NthCommand(str, k) ==
    CHOOSE j \in 1..Len(str) :
        /\ IsCommand(str[j])
        /\ Cardinality({i \in 1..(j - 1) : IsCommand(str[i])}) = k - 1

Kinds(toks) == [k \in 1..Len(toks) |-> toks[k].ty]

RunFails(e) == results' = Append(results, Err(e))

\* run() returns Ok(()) in this step: the while loop of run_file goes on with
\* the next command
RunSucceeds ==
    /\ results' = results
    /\ mpc' = "running"
    /\ command_index' = command_index + 1

\* the token the lexer gave the command at index i (0-based) of a source of
\* commands only: line 1, col i + 1
TokenAt(ty, i) == Token(ty, 1, i + 1)

\* C13: a `<` executed with the pointer at 0 makes the run fail with PointZeroDec
\* carrying the token of that `<` (line 1, col 1 when it is the first command);
\* with the pointer above 0 it succeeds and the pointer is one less.
C13_PointDec ==
    [][Running("PointDec") =>
          IF data_index = 0
          THEN /\ RunFails(Error("PointZeroDec", TokenAt("PointDec", command_index)))
               /\ command_index = 0 => Last(results').err.token = Token("PointDec", 1, 1)
               /\ UNCHANGED <<data, data_index>>
          ELSE /\ RunSucceeds
               /\ data_index' = data_index - 1
               /\ UNCHANGED data]_vars

C13_Witness ==
    /\ mpc = "exited"
    /\ results # << >>
    /\ Last(results).err.kind = "PointZeroDec"
    /\ Last(results).err.token.col = 3

\* C14: a `-` executed on a cell that is 0 makes the run fail with ValZeroDec
\* carrying the token of that `-` (line 1, col 1 when it is the first command);
\* on a cell above 0 it succeeds and the cell is one less.
C14_ValDec ==
    [][Running("ValDec") =>
          IF CurVal = 0
          THEN /\ RunFails(Error("ValZeroDec", TokenAt("ValDec", command_index)))
               /\ command_index = 0 => Last(results').err.token = Token("ValDec", 1, 1)
               /\ UNCHANGED <<data, data_index>>
          ELSE /\ RunSucceeds
               /\ data' = [data EXCEPT ![data_index + 1] = CurVal - 1]
               /\ UNCHANGED data_index]_vars

C14_Witness ==
    /\ mpc = "exited"
    /\ results # << >>
    /\ Last(results).err.kind = "ValZeroDec"
    /\ Last(results).err.token.col = 3
    /\ data_index > 0

\* the read of this step: what read_line gave
ThisRead == Last(inlog')

\* a line that holds a character before its line break
NonEmptyLine(l) == l # << >> /\ l[1] # 10

\* C15: a `,` that reads a non-empty line, whatever its length, succeeds and
\* leaves in the current cell the scalar value of the first character of the line.
C15_InputTakesFirstCharacter ==
    [][(Running("Input") /\ Len(inlog') = Len(inlog) + 1
            /\ ThisRead.ok /\ NonEmptyLine(ThisRead.line))
          => /\ RunSucceeds
             /\ data' = [data EXCEPT ![data_index + 1] = ThisRead.line[1]]]_vars

\* C16: a `,` whose read from standard input fails ends the run with the error
\* value Io carrying the token of that `,`, returned to main and not a panic,
\* and no command is executed afterwards.
C16_ReadFailureIsIoError ==
    [][/\ (Running("Input") /\ Len(inlog') = Len(inlog) + 1 /\ ~ThisRead.ok)
            => /\ RunFails(Error("Io", CurToken))
               /\ mpc' = "exited"
       /\ mpc \in {"exited", "panicked"} => UNCHANGED <<progVars, ioVars>>]_vars

\* the command executed just before the current one in the same run of `.`:
\* the current command is a `.` and so is the command before it
InRunOfOutputs == command_index > 0 /\ commands[command_index].ty = "Output"

\* the last n characters printed
LastPrinted(n) == SubSeq(stdout, Len(stdout) - n + 1, Len(stdout))

\* the n commands before the current one are all `.`
OutputsBefore(n) ==
    /\ n <= command_index
    /\ \A j \in (command_index - n + 1)..command_index : commands[j].ty = "Output"

\* C17 as stated: each `.` on a cell whose value is a scalar value prints its
\* character; on a cell whose value is none, only the first `.` of a run of
\* consecutive `.` prints a space and the others print nothing.
C17_OneSpacePerRun ==
    [][Running("Output") =>
          stdout' = IF IsScalarValue(CurVal) THEN Append(stdout, CurVal)
                    ELSE IF InRunOfOutputs THEN stdout
                    ELSE Append(stdout, 32)]_vars

\* C17 as the code has it: every `.` prints exactly one character and changes
\* nothing else: the character of the cell, or a space when the cell's value
\* is no scalar value; so a run of n consecutive `.` on the same cell prints
\* that character n times, or n spaces.
C17_OneCharacterPerOutput ==
    /\ [][Running("Output") =>
            /\ stdout' = Append(stdout, IF IsScalarValue(CurVal) THEN CurVal ELSE 32)
            /\ RunSucceeds
            /\ UNCHANGED <<data, data_index>>]_vars
    /\ [](\A n \in 1..MaxOut :
            (mpc = "running" /\ OutputsBefore(n)
                /\ (finished \/ commands[command_index + 1].ty # "IfZero"))
              => /\ Len(stdout) >= n
                 /\ LastPrinted(n) = [k \in 1..n |-> IF IsScalarValue(CurVal) THEN CurVal ELSE 32])

C17_Witness ==
    /\ mpc = "running"
    /\ OutputsBefore(2)
    /\ ~IsScalarValue(CurVal)
    /\ stdout = <<32, 32>>
    /\ finished

\* C18: no step of a run makes the tape shorter; when `>` makes it longer, the
\* cells it had keep their indices and values and every new cell is 0.
C18_TapeGrowsRightward ==
    [][(mpc = "running" /\ ~finished) =>
          /\ Len(data') >= Len(data)
          /\ Running("PointInc") =>
                /\ SubSeq(data', 1, Len(data)) = data
                /\ \A i \in (Len(data) + 1)..Len(data') : data'[i] = 0]_vars

C18_Witness ==
    /\ mpc = "running"
    /\ Len(data) = 8
    /\ data[1] = 1

RECURSIVE AllExprs(_)
\* the expressions of a vector at every nesting level
AllExprs(exprs) ==
    UNION {{exprs[i]} \cup AllExprs(exprs[i].exprs) : i \in 1..Len(exprs)}

\* C19: in the vector parse_tokens returns, at every nesting level, each Set(n)
\* carries exactly n + 1 tokens.
C19_SetTokenCount ==
    parse_ret.ok =>
        \A e \in AllExprs(parse_ret.val) : e.ty = "Set" => Len(e.tokens) = e.n + 1

\* the kind of the commands that a run expression counts
CommandKindOf(ty) ==
    CASE ty = "MoveRight" -> "PointInc"
      [] ty = "MoveLeft" -> "PointDec"
      [] ty = "Add" -> "ValInc"
      [] ty = "Sub" -> "ValDec"
      [] ty = "Output" -> "Output"
      [] ty = "Input" -> "Input"

\* C20: in the vector parse_tokens returns, at every nesting level, each
\* MoveRight(n), MoveLeft(n), Add(n), Sub(n), Output(n) and Input(n) carries
\* exactly n tokens, all of the kind of the commands of that run.
C20_RunTokenCount ==
    parse_ret.ok =>
        \A e \in AllExprs(parse_ret.val) :
            e.ty \in {"MoveRight", "MoveLeft", "Add", "Sub", "Output", "Input"} =>
                /\ Len(e.tokens) = e.n
                /\ \A k \in 1..Len(e.tokens) : e.tokens[k].ty = CommandKindOf(e.ty)

C20_Witness ==
    /\ parse_ret.ok
    /\ ptokens = Lexed(<<"[", "+", "+", "-", "]">>)
    /\ \E e \in AllExprs(parse_ret.val) :
         /\ e.ty = "Add"
         /\ e.n = 1
         /\ e.tokens = <<Token("ValInc", 1, 2)>>

\* lex_string or a step of the run has returned an error
HasFailed == results # << >> /\ ~Last(results).ok

\* C21: the step in which lex_string or run() returns an error prints nothing
\* and changes neither the tape nor the pointer, and a lex error leaves no
\* program to run; after it no command is executed, nothing is printed or
\* read and no further result is produced: there is no retry.
C21_FirstFailureAborts ==
    [][/\ (~HasFailed /\ HasFailed') =>
            /\ UNCHANGED <<stdout, data, data_index, loop_stack>>
            /\ mpc = "loop" => UNCHANGED <<progVars, inlog>>
       /\ HasFailed => UNCHANGED <<progVars, ioVars, results, stderr>>]_vars

C21_Witness ==
    /\ HasFailed
    /\ Last(results).err.kind = "ValZeroDec"
    /\ stdout # << >>
    /\ command_index + 1 < Len(commands)

\* the source of k `>` followed by one `+`
RightsThenPlus(k) == [i \in 1..k |-> ">"] \o <<"+">>

\* C22: the program of k `>` followed by one `+` never fails, and when it has
\* run to its end the tape has at least k + 1 cells, cell k holds 1 and every
\* other cell holds 0.
C22_RightsThenPlus ==
    \A k \in 0..(MaxSrcLen - 1) :
        commands = Lexed(RightsThenPlus(k)) =>
            /\ mpc = "running"
            /\ results = << >>
            /\ finished =>
                 /\ Len(data) >= k + 1
                 /\ data[k + 1] = 1
                 /\ \A i \in 1..Len(data) : i # k + 1 => data[i] = 0

C22_Witness ==
    /\ commands = Lexed(RightsThenPlus(MaxSrcLen - 1))
    /\ mpc = "running"
    /\ finished

\* a line that holds exactly one character and then its line break
OneCharacterLine(l) == Len(l) = 2 /\ l[1] # 10 /\ l[2] = 10

\* C23: a `,` that reads a line holding exactly one character c succeeds and
\* stores the scalar value of c, and the `.` after it prints c once; so ",."
\* on the input "A\n" ends without error having printed A exactly once.
C23_OneCharacterLineIsEchoed ==
    /\ [][(Running("Input") /\ Len(inlog') = Len(inlog) + 1
              /\ ThisRead.ok /\ OneCharacterLine(ThisRead.line))
            => /\ RunSucceeds
               /\ data' = [data EXCEPT ![data_index + 1] = ThisRead.line[1]]]_vars
    /\ []((commands = Lexed(<<",", ".">>) /\ inlog = <<[ok |-> TRUE, line |-> <<65, 10>>]>>)
            => /\ mpc = "running"
               /\ finished => stdout = <<65>>)

\* run_file creates the ProgState in this step
Created == mpc = "loop" /\ mpc' = "running"

\* C24: the ProgState that from_tokens creates has a tape of exactly one cell
\* holding 0, pointer 0, command index 0 and an empty loop stack, and its
\* commands are the tokens of the source, each in its place: the i-th is the
\* token of column i of line 1.
C24_FreshProgState ==
    [][Created =>
          /\ data' = <<0>>
          /\ data_index' = 0
          /\ command_index' = 0
          /\ loop_stack' = << >>
          /\ Len(commands') <= MaxSrcLen
          /\ \A i \in 1..Len(commands') :
               /\ commands'[i].line = 1
               /\ commands'[i].col = i
               /\ commands'[i].ty \in {lex_char(c) : c \in CommandChars}]_vars

C24_Witness ==
    /\ mpc = "running"
    /\ command_index = 0
    /\ data = <<0>>
    /\ Len(commands) = MaxSrcLen
    /\ commands[1].ty = "IfZero"

\* "Hello World!" and a newline, as scalar values
HelloOutput == <<72, 101, 108, 108, 111, 32, 87, 111, 114, 108, 100, 33, 10>>

\* C25: the run of the Hello World program never fails, what it has printed is
\* always a prefix of "Hello World!\n", and it ends: main returns with exactly
\* "Hello World!\n" printed.
C25_HelloWorld ==
    /\ [](/\ mpc \in {"loop", "running", "returned"}
          /\ \A i \in 1..Len(results) : results[i].ok
          /\ Len(stdout) <= Len(HelloOutput)
          /\ stdout = SubSeq(HelloOutput, 1, Len(stdout)))
    /\ <>(mpc = "returned" /\ results = <<Ok(<< >>)>> /\ stdout = HelloOutput)

C25_Witness ==
    /\ mpc = "returned"
    /\ stdout = HelloOutput
    /\ stderr = << >>

\* the body is the single expression Sub(1)
IsSubOne(lb_exprs) ==
    /\ Len(lb_exprs) = 1
    /\ lb_exprs[1].ty = "Sub"
    /\ lb_exprs[1].n = 1

\* C26: at the `]` that ends a loop, one expression is pushed on the vector of
\* the enclosing level; it is Set(0) when the body parsed so far is the single
\* expression Sub(1), and in every other case (the empty body, a single Set(0),
\* a Sub of another count, several expressions) a LoopBlock whose expressions
\* are that body, unchanged.
C26_SetZeroExactlyForSubOne ==
    [][(Parsing("IfNonZero") /\ Len(pstack) > 1 /\ ppos' = ppos + 1) =>
          LET lb_exprs == Last(pstack)
              pushed == Last(Last(pstack'))
          IN /\ Len(pstack') = Len(pstack) - 1
             /\ Last(pstack') = Append(pstack[Len(pstack) - 1], pushed)
             /\ Pop(pstack') = SubSeq(pstack, 1, Len(pstack) - 2)
             /\ IF IsSubOne(lb_exprs)
                THEN pushed.ty = "Set" /\ pushed.n = 0 /\ pushed.exprs = << >>
                ELSE pushed.ty = "LoopBlock" /\ pushed.exprs = lb_exprs]_vars

\* "[[-]]" parsed: the inner loop became Set(0); the outer loop, whose body is
\* that single Set(0), is a LoopBlock
C26_Witness ==
    /\ ptokens = Lexed(<<"[", "[", "-", "]", "]">>)
    /\ parse_ret = Ok(<<LoopBlockExpr(<<Expr("Set", 0, <<Token("ValDec", 1, 3)>>)>>)>>)

\* the token the parser is at is of type ty and meets a trailing run of type
\* run of count above 1; the step parses it
CancelsLongRun(ty, run) ==
    /\ Parsing(ty)
    /\ TopExprs # << >>
    /\ Last(TopExprs).ty = run
    /\ Last(TopExprs).n > 1
    /\ ppos' = ppos + 1

\* the trailing run of the vector lost one count and its last token, and
\* nothing else changed
RunShortenedByOne ==
    LET prev == Last(TopExprs)
    IN /\ Len(pstack') = Len(pstack)
       /\ Pop(pstack') = Pop(pstack)
       /\ Pop(Last(pstack')) = Pop(TopExprs)
       /\ Len(Last(pstack')) = Len(TopExprs)
       /\ Last(Last(pstack')) = [ty |-> prev.ty, n |-> prev.n - 1,
                                 tokens |-> SubSeq(prev.tokens, 1, Len(prev.tokens) - 1),
                                 exprs |-> << >>]
       /\ Len(prev.tokens) = prev.n
       /\ NextToken \notin {Last(Last(pstack')).tokens[i] : i \in 1..(prev.n - 1)}

\* C27: a `<` meeting a trailing MoveRight(n), and a `-` meeting a trailing
\* Add(n), with n > 1, leave MoveRight(n-1), resp. Add(n-1), carrying the first
\* n-1 tokens of the run in their order: the last token is dropped and the
\* cancelling token is not recorded.
C27_CancelKeepsFirstTokens ==
    [][(CancelsLongRun("PointDec", "MoveRight") \/ CancelsLongRun("ValDec", "Add"))
          => RunShortenedByOne]_vars

\* ">>><" parsed: MoveRight(2) carrying the tokens of the first two `>`
C27_Witness ==
    /\ ptokens = Lexed(<<">", ">", ">", "<">>)
    /\ parse_ret = Ok(<<Expr("MoveRight", 2, <<Token("PointInc", 1, 1),
                                               Token("PointInc", 1, 2)>>)>>)

\* the token types of the six commands that form runs
RunTokenTypes == {"PointInc", "PointDec", "ValInc", "ValDec", "Output", "Input"}

\* the type of the run expression a command starts
ExprTypeOf(ty) ==
    CASE ty = "PointInc" -> "MoveRight"
      [] ty = "PointDec" -> "MoveLeft"
      [] ty = "ValInc" -> "Add"
      [] ty = "ValDec" -> "Sub"
      [] ty = "Output" -> "Output"
      [] ty = "Input" -> "Input"

\* the step parses a run command that comes right after a token of type before
ParsesRunCommandAfter(before) ==
    /\ parse_ret = Pending
    /\ 0 < ppos
    /\ ppos < Len(ptokens)
    /\ ptokens[ppos].ty = before
    /\ NextToken.ty \in RunTokenTypes
    /\ ppos' = ppos + 1

\* the step appended a new run of count 1 for the token to the vector it is
\* parsed into and changed nothing else, at any level
StartsNewRun ==
    /\ parse_ret' = Pending
    /\ Len(pstack') = Len(pstack)
    /\ Pop(pstack') = Pop(pstack)
    /\ Last(pstack') = Append(TopExprs, Expr(ExprTypeOf(NextToken.ty), 1, <<NextToken>>))

\* C28: the first command of a loop body starts a run of count 1 in the empty
\* vector of the body and leaves the expressions before the `[` as they are;
\* the command after the `]` of a loop that stayed a LoopBlock starts a run of
\* count 1 after the LoopBlock and leaves the LoopBlock and its body as they
\* are.
C28_NoMergeAcrossBrackets ==
    [][/\ ParsesRunCommandAfter("IfZero") => (TopExprs = << >> /\ StartsNewRun)
       /\ (ParsesRunCommandAfter("IfNonZero") /\ TopExprs # << >>
              /\ Last(TopExprs).ty = "LoopBlock") => StartsNewRun]_vars

\* "[<]<" parsed: a LoopBlock holding MoveLeft(1), then a MoveLeft(1)
C28_Witness ==
    /\ ptokens = Lexed(<<"[", "<", "]", "<">>)
    /\ parse_ret = Ok(<<LoopBlockExpr(<<Expr("MoveLeft", 1, <<Token("PointDec", 1, 2)>>)>>),
                        Expr("MoveLeft", 1, <<Token("PointDec", 1, 4)>>)>>)

RECURSIVE OutputInputRuns(_)
\* the Output and Input runs of exprs and of the loops in it, in their order
OutputInputRuns(exprs) ==
    IF exprs = << >> THEN << >>
    ELSE LET e == exprs[1] IN
         (IF e.ty \in {"Output", "Input"} THEN <<e>>
          ELSE IF e.ty = "LoopBlock" THEN OutputInputRuns(e.exprs)
          ELSE << >>) \o OutputInputRuns(Tail(exprs))

RECURSIVE StackOutputInputRuns(_)
\* the Output and Input runs parsed so far: those of exprs, then those of each
\* loop body that is still open
StackOutputInputRuns(stack) ==
    IF stack = << >> THEN << >>
    ELSE OutputInputRuns(stack[1]) \o StackOutputInputRuns(Tail(stack))

\* the vector after a token of type ty ("Output" or "Input") was parsed into
\* exprs, as the claim has it
OwnRunExtended(exprs, token) ==
    IF exprs # << >> /\ Last(exprs).ty = token.ty
    THEN SetLast(exprs, [ty |-> token.ty, n |-> Last(exprs).n + 1,
                         tokens |-> Append(Last(exprs).tokens, token), exprs |-> << >>])
    ELSE Append(exprs, [ty |-> token.ty, n |-> 1, tokens |-> <<token>>, exprs |-> << >>])

\* C29: a `.` (resp. `,`) extends the trailing expression exactly when it is an
\* Output (resp. Input) run, adding one to its count and appending the token;
\* otherwise it starts a run of count 1. The step of every other token, and
\* the return of parse_tokens, leave every Output and Input run parsed so far
\* as it is: same count, same tokens, same order.
C29_OutputInputRuns ==
    [][/\ (Parsing("Output") \/ Parsing("Input")) /\ ppos' = ppos + 1
          => /\ pstack' = SetLast(pstack, OwnRunExtended(TopExprs, NextToken))
             /\ parse_ret' = Pending
       /\ (/\ parse_ret = Pending
           /\ ppos < Len(ptokens)
           /\ NextToken.ty \notin {"Output", "Input"}
           /\ ppos' = ppos + 1
           /\ parse_ret' = Pending)
          => StackOutputInputRuns(pstack') = StackOutputInputRuns(pstack)
       /\ (parse_ret = Pending /\ parse_ret'.ok)
          => OutputInputRuns(parse_ret'.val) = StackOutputInputRuns(pstack)]_vars

\* "..,.-" parsed: Output(2), Input(1), Output(1), Sub(1)
C29_Witness ==
    /\ ptokens = Lexed(<<".", ".", ",", ".", "-">>)
    /\ parse_ret = Ok(<<Expr("Output", 2, <<Token("Output", 1, 1), Token("Output", 1, 2)>>),
                        Expr("Input", 1, <<Token("Input", 1, 3)>>),
                        Expr("Output", 1, <<Token("Output", 1, 4)>>),
                        Expr("Sub", 1, <<Token("ValDec", 1, 5)>>)>>)

\* C30: in the run of a bracket-balanced program, whenever a `]` is about to be
\* executed on a nonzero cell, loop_stack is not empty, so that
\* loop_stack.pop().unwrap() has a jump target (the commands of a run are the
\* tokens of a source the lexer accepted, which are balanced).
C30_CloseHasJumpTarget ==
    (Running("IfNonZero") /\ CurVal # 0) => loop_stack # << >>

\* the brackets of str are balanced: no prefix holds more `]` than `[`, and the
\* whole of str holds as many of the one as of the other
Balanced(str) ==
    /\ NoUnmatchedClose(str)
    /\ CountIn(str, Len(str), "[") = CountIn(str, Len(str), "]")

\* C31: lex_string returns Ok exactly for the sources whose brackets are
\* balanced.
C31_AcceptsExactlyBalanced ==
    lex_ret # Pending => (lex_ret.ok <=> Balanced(string))

\* a source of full length with a bracket pair in it was accepted
C31_Witness ==
    /\ lex_ret.ok
    /\ Len(string) = MaxLexLen
    /\ CountIn(string, Len(string), "[") > 0

\* run() returns an error of kind in this step
RunFailsWith(kind) ==
    /\ mpc = "running"
    /\ Len(results') = Len(results) + 1
    /\ ~Last(results').ok
    /\ Last(results').err.kind = kind

\* C32: the step in which run() returns PointZeroDec, ValZeroDec or Io leaves
\* the tape, the pointer, the command index and the loop stack as they were.
C32_FailingStepChangesNothing ==
    [][(RunFailsWith("PointZeroDec") \/ RunFailsWith("ValZeroDec") \/ RunFailsWith("Io"))
          => UNCHANGED <<data, data_cap, data_index, command_index, loop_stack>>]_vars

\* a `,` inside a loop, after the pointer moved and a cell was set, returned Io
C32_Witness ==
    /\ HasFailed
    /\ Last(results).err.kind = "Io"
    /\ loop_stack # << >>
    /\ data_index > 0
    /\ \E i \in 1..Len(data) : data[i] # 0

\* C33: in the run of the tokens of an accepted source no step returns
\* UnmatchedOpenBracket: a `[` executed on a zero cell has a `]` after it, and
\* the step ends right after a `]` without an error.
C33_ScanFindsAClose ==
    [][/\ ~RunFailsWith("UnmatchedOpenBracket")
       /\ (Running("IfZero") /\ CurVal = 0) =>
            /\ \E j \in (command_index + 2)..Len(commands) : commands[j].ty = "IfNonZero"
            /\ results' = results
            /\ mpc' = "running"
            /\ command_index' \in (command_index + 2)..Len(commands)
            /\ commands[command_index'].ty = "IfNonZero"]_vars

\* a `[` that opens a program of full length was skipped on the zero cell: the
\* run is past the `]` that ends the program, with no error
C33_Witness ==
    /\ mpc = "running"
    /\ Len(commands) = MaxSrcLen
    /\ commands[1].ty = "IfZero"
    /\ commands[MaxSrcLen].ty = "IfNonZero"
    /\ \A i \in 2..(MaxSrcLen - 1) : commands[i].ty \notin {"IfZero", "IfNonZero"}
    /\ command_index = MaxSrcLen
    /\ data = <<0>>
    /\ results = << >>

RECURSIVE AllExprSeqs(_)
\* exprs and the bodies of the loops in it, at every nesting level
AllExprSeqs(exprs) ==
    {exprs} \cup UNION {AllExprSeqs(exprs[i].exprs) : i \in 1..Len(exprs)}

\* the six kinds of run the claim names
RunExprTypes == {"MoveRight", "MoveLeft", "Add", "Sub", "Output", "Input"}

\* C34: in the vector parse_tokens returns and in the body of every loop in it,
\* no run of one of the six kinds is directly followed by a run of the same
\* kind, no MoveRight is directly followed by a MoveLeft and no Add by a Sub.
C34_AdjacentRunsDiffer ==
    parse_ret.ok =>
        \A seq \in AllExprSeqs(parse_ret.val) :
            \A i \in 1..(Len(seq) - 1) :
                /\ seq[i].ty \in RunExprTypes => seq[i + 1].ty # seq[i].ty
                /\ seq[i].ty = "MoveRight" => seq[i + 1].ty # "MoveLeft"
                /\ seq[i].ty = "Add" => seq[i + 1].ty # "Sub"

\* "<+-<>" parsed: the cancelled Add uncovered the MoveLeft, which the second
\* `<` extended; the `>` after it started a run of its own
C34_Witness ==
    /\ ptokens = Lexed(<<"<", "+", "-", "<", ">">>)
    /\ parse_ret = Ok(<<Expr("MoveLeft", 2, <<Token("PointDec", 1, 1), Token("PointDec", 1, 4)>>),
                        Expr("MoveRight", 1, <<Token("PointInc", 1, 5)>>)>>)

\* the step keeps every cell the tape had, except possibly the cells in but
KeepsCellsExcept(but) ==
    /\ Len(data') >= Len(data)
    /\ \A i \in 1..Len(data) : i \notin but => data'[i] = data[i]

\* C35: the frame of the steps of run(). `>` and `<` keep the value of every
\* cell the tape had; `+`, `-` and `,` keep the pointer, the length of the tape
\* and every cell but the current one; `.`, `[` and `]` keep the tape and the
\* pointer; every command but `[` and `]` keeps the loop stack.
C35_StepFrames ==
    [][/\ (Running("PointInc") \/ Running("PointDec")) =>
            /\ KeepsCellsExcept({})
            /\ UNCHANGED loop_stack
       /\ (Running("ValInc") \/ Running("ValDec") \/ Running("Input")) =>
            /\ KeepsCellsExcept({data_index + 1})
            /\ Len(data') = Len(data)
            /\ UNCHANGED <<data_index, loop_stack>>
       /\ Running("Output") => UNCHANGED <<data, data_index, loop_stack>>
       /\ (Running("IfZero") \/ Running("IfNonZero")) => UNCHANGED <<data, data_index>>]_vars

\* inside a loop, after a `.` and a `>` that made the tape grow: the first cell
\* still holds its value and the loop stack its entry
C35_Witness ==
    /\ mpc = "running"
    /\ loop_stack # << >>
    /\ stdout # << >>
    /\ data_index = 1
    /\ Len(data) > 1
    /\ data[1] # 0
    /\ command_index > 0
    /\ commands[command_index].ty = "PointInc"

\* the program holds no `[` and no `]`
BracketFree(cmds) ==
    \A i \in 1..Len(cmds) : cmds[i].ty \notin {"IfZero", "IfNonZero"}

\* C36: in the run of a program without brackets, the command index never
\* passes the number of tokens; a step of run() either returns Ok(()) with the
\* command index exactly one higher, or stops the run (an error returned to
\* main, or a panic) where it stands; once the index equals the number of
\* tokens the run is over and no command is executed. The index starts at 0,
\* so a run takes at most as many steps as the program has tokens.
C36_StraightLineRunIsBounded ==
    [][(mpc = "running" /\ BracketFree(commands)) =>
          /\ command_index <= Len(commands)
          /\ IF finished
             THEN /\ mpc' = "loop"
                  /\ results' = Append(results, Ok(<< >>))
                  /\ UNCHANGED ioVars
             ELSE IF mpc' = "running"
             THEN /\ command_index' = command_index + 1
                  /\ UNCHANGED <<commands, results>>
             ELSE /\ mpc' \in {"exited", "panicked"}
                  /\ UNCHANGED <<commands, command_index>>]_vars

\* a program of full length without brackets that read and printed has run to
\* its end: the command index is the number of tokens
C36_Witness ==
    /\ mpc = "running"
    /\ BracketFree(commands)
    /\ Len(commands) = MaxSrcLen
    /\ command_index = MaxSrcLen
    /\ inlog # << >>
    /\ stdout # << >>
    /\ results = << >>

\* C37: a `+` succeeds and leaves the current cell at its previous value plus 1,
\* which is still a value of the cell's width, whatever the cell held.
C37_IncrementNeverOverflows ==
    [][Running("ValInc") =>
          /\ mpc' = "running"
          /\ results' = results
          /\ command_index' = command_index + 1
          /\ CurVal + 1 <= CellMax
          /\ data' = [data EXCEPT ![data_index + 1] = CurVal + 1]]_vars

RECURSIVE MatchingClose(_, _, _)
\* the index (0-based) of the IfNonZero that closes the loop whose body starts at
\* index i, depth loops being open inside it; Len(cmds) when there is none
MatchingClose(cmds, i, depth) ==
    IF i >= Len(cmds) THEN Len(cmds)
    ELSE CASE cmds[i + 1].ty = "IfZero" -> MatchingClose(cmds, i + 1, depth + 1)
           [] cmds[i + 1].ty = "IfNonZero" ->
                IF depth = 0 THEN i ELSE MatchingClose(cmds, i + 1, depth - 1)
           [] OTHER -> MatchingClose(cmds, i + 1, depth)

\* C2: a `[` executed on a zero cell runs no command of its loop: the command
\* executed next is the one right after the matching `]`.
C2_ZeroCellSkipsLoop ==
    [][(Running("IfZero") /\ CurVal = 0)
          => command_index' = MatchingClose(commands, command_index + 1, 0) + 1]_vars

\* C3: while a file runs, after from_tokens and after every step that returned
\* Ok, 0 <= data_index < the length of the tape.
C3_PointerWithinTape ==
    mpc = "running" => (0 <= data_index /\ data_index < Len(data))

C3_Witness ==
    /\ mpc = "running"
    /\ data_index > 0
    /\ data_index + 1 = Len(data)

====
